---- MODULE Spec2Model ----
(***************************************************************************)
(* A model of filemeta.py: the path classifier (parse_sample_name,         *)
(* parse_sample_id, parse_sample_type, parse_date), aggregate_fpaths,      *)
(* parse_fpaths with the command-line driver, and the two-stream drain of  *)
(* SSHParser.list_files.                                                   *)
(*                                                                         *)
(* A Python str is modelled as a sequence of one-character strings, so     *)
(* that split, find, startswith, slicing and the regular expression are    *)
(* computed character by character as the interpreter computes them.       *)
(***************************************************************************)
EXTENDS Integers, Sequences, FiniteSets, TLC

VARIABLES
    entry,       \* the function the caller entered: "main" or "aggregate_fpaths"
    pc,          \* position of the coordinating thread
    config,      \* the host entries, in configuration order
    parsers,     \* the file parsers the list comprehension has built so far
    listed,      \* number of hosts whose list_files call has returned
    fpaths,      \* the collected path list
    applied,     \* DataFrame.apply: the lambda's results, row by row
    filemeta,    \* the DataFrame aggregate_fpaths builds
    error,       \* where an exception was raised, "none" if none was
    exitStatus,  \* the process exit status, -1 while running
    output,      \* the tables written by to_csv, in order
    sshPc,       \* SSHParser.list_files: position of the calling thread
    sshRoot,     \* SSHParser.list_files: index of the root being listed
    remote,      \* per root: the lines the remote command has yet to emit
    outBuf,      \* per root: lines waiting in the stdout buffer
    errBuf,      \* per root: lines waiting in the stderr buffer
    errPc,       \* per root: state of the stderr thread
    sshFpaths,   \* SSHParser.list_files: number of lines appended to fpaths
    printed      \* number of stderr lines the stderr threads printed

progVars == <<entry, pc, config, parsers, listed, fpaths, applied, filemeta,
              error, exitStatus, output>>
sshVars == <<sshPc, sshRoot, remote, outBuf, errBuf, errPc, sshFpaths, printed>>
vars == <<progVars, sshVars>>

----------------------------------------------------------------------------
(* Bounds of the model *)

MaxNamePieces == 4
MaxDirPieces == 2
MaxDatePieces == 3

----------------------------------------------------------------------------
(* Python str and list primitives *)

SetMin(S) == CHOOSE x \in S : \A y \in S : x <= y

\* sub occurs in s at the 1-based position i
OccursAt(s, sub, i) ==
    /\ i + Len(sub) - 1 <= Len(s)
    /\ \A k \in 1..Len(sub) : s[i + k - 1] = sub[k]

Occurrences(s, sub) == {i \in 1..(Len(s) + 1) : OccursAt(s, sub, i)}

\* sub in s
str_in(sub, s) == Occurrences(s, sub) # {}

\* s.find(sub): the 0-based index of the first occurrence, -1 when absent
str_find(s, sub) ==
    IF Occurrences(s, sub) = {} THEN -1 ELSE SetMin(Occurrences(s, sub)) - 1

\* s.startswith(prefix)
str_startswith(s, prefix) == OccursAt(s, prefix, 1)

\* s.split(c) for a one-character separator c: empty tokens are kept
RECURSIVE str_split(_, _)
str_split(s, c) ==
    LET P == {i \in 1..Len(s) : s[i] = c}
    IN  IF P = {}
        THEN <<s>>
        ELSE LET i == SetMin(P)
             IN  <<SubSeq(s, 1, i - 1)>> \o str_split(SubSeq(s, i + 1, Len(s)), c)

\* sep.join(tokens)
RECURSIVE str_join(_, _)
str_join(sep, tokens) ==
    IF tokens = <<>> THEN <<>>
    ELSE IF Len(tokens) = 1 THEN tokens[1]
    ELSE tokens[1] \o sep \o str_join(sep, Tail(tokens))

\* a slice bound i of a sequence of length n, as Python normalises it
PyClamp(n, i) ==
    IF i < 0 THEN (IF n + i < 0 THEN 0 ELSE n + i)
    ELSE (IF i > n THEN n ELSE i)

\* s[start:end]
PySlice(s, start, end) ==
    LET a == PyClamp(Len(s), start)
        b == PyClamp(Len(s), end)
    IN  IF a >= b THEN <<>> ELSE SubSeq(s, a + 1, b)

\* path.split('/')[-1]
Basename(path) == LET segs == str_split(path, "/") IN segs[Len(segs)]

----------------------------------------------------------------------------
(* The literals of the classifier *)

GEX == <<"G", "E", "X">>
MUX == <<"M", "U", "X">>
ic == <<"i", "c">>
L00 == <<"_", "L", "0", "0">>
R_ == <<"_", "R">>
fastq == <<".", "f", "a", "s", "t", "q">>
amplicons == <<"a", "m", "p", "l", "i", "c", "o", "n", "s">>
alpha == <<"a", "l", "p", "h", "a">>
beta == <<"b", "e", "t", "a">>
nanopore == <<"n", "a", "n", "o", "p", "o", "r", "e">>
fq_2025_09_23 == <<"2", "0", "2", "5", "-", "0", "9", "-", "2", "3", "_", "f", "q">>
IAR_TCR == <<"I", "A", "R", "_", "T", "C", "R">>
scTCR == <<"s", "c", "T", "C", "R">>
scrna == <<"s", "c", "r", "n", "a">>
scRNA == <<"s", "c", "R", "N", "A">>
sc == <<"s", "c">>
atac == <<"a", "t", "a", "c">>

\* the marker list of parse_sample_id, in the order the loop tries it
Markers == <<L00, R_, fastq>>

----------------------------------------------------------------------------
(* parse_sample_name *)

\* a variant that keeps two tokens: basename.split('_')[:2]
NameTokensGEXTwo(tokens) == PySlice(tokens, 0, 2)

\* basename.split('_')[:3]
NameTokensGEX(tokens) == PySlice(tokens, 0, 3)

\* a variant that keeps the prefix token: basename.split('_')[0:3]
NameTokensIcFromFirst(tokens) == PySlice(tokens, 0, 3)

\* basename.split('_')[1:4]
NameTokensIc(tokens) == PySlice(tokens, 1, 4)

parse_sample_name(path) ==
    LET basename == Basename(path)
        tokens == str_split(basename, "_")
    IN  IF str_startswith(basename, GEX) \/ str_startswith(basename, MUX)
        THEN str_join(<<"_">>, NameTokensGEX(tokens))
        ELSE IF str_startswith(basename, ic)
        THEN str_join(<<"_">>, NameTokensIc(tokens))
        ELSE tokens[1]

----------------------------------------------------------------------------
(* parse_sample_id *)

\* the for/else loop: the first marker OF THE LIST that occurs in the basename
\* gives end = basename.find(marker); without any, end = len(basename)
MarkerEnd(basename) ==
    LET present == {k \in 1..Len(Markers) : str_in(Markers[k], basename)}
    IN  IF present = {}
        THEN Len(basename)
        ELSE str_find(basename, Markers[SetMin(present)])

parse_sample_id(path) ==
    LET basename == Basename(path)
        s_name == parse_sample_name(basename)
        start == str_find(basename, s_name)
    IN  PySlice(basename, start, MarkerEnd(basename))

----------------------------------------------------------------------------
(* parse_sample_type *)

\* a variant of the chain that tests the basename before the folder
TypeChainBasenameFirst(major_folder, basename) ==
    IF str_in(alpha, basename) \/ str_in(beta, basename) THEN "bulkTCR"
    ELSE IF str_in(amplicons, major_folder) THEN "amplicon"
    ELSE IF str_in(nanopore, major_folder) \/ major_folder = fq_2025_09_23
    THEN "NanoporeWGS"
    ELSE IF str_in(IAR_TCR, major_folder) \/ str_in(scTCR, major_folder)
    THEN "scRNA+VDJ"
    ELSE IF str_in(scrna, major_folder) \/ str_in(scRNA, major_folder)
            \/ str_in(sc, major_folder)
    THEN "scRNA"
    ELSE IF str_in(atac, major_folder) THEN "ATAC"
    ELSE "WGS"

\* the if/elif chain over (major_folder, basename)
TypeChain(major_folder, basename) ==
    IF str_in(amplicons, major_folder) THEN "amplicon"
    ELSE IF str_in(alpha, basename) \/ str_in(beta, basename) THEN "bulkTCR"
    ELSE IF str_in(nanopore, major_folder) \/ major_folder = fq_2025_09_23
    THEN "NanoporeWGS"
    ELSE IF str_in(IAR_TCR, major_folder) \/ str_in(scTCR, major_folder)
    THEN "scRNA+VDJ"
    ELSE IF str_in(scrna, major_folder) \/ str_in(scRNA, major_folder)
            \/ str_in(sc, major_folder)
    THEN "scRNA"
    ELSE IF str_in(atac, major_folder) THEN "ATAC"
    ELSE "WGS"

\* a variant that reads the folder one level further out: path.split('/')[-3]
parse_sample_type_outer(path) ==
    LET segs == str_split(path, "/")
    IN  IF Len(segs) < 2
        THEN "IndexError"
        ELSE TypeChain(segs[IF Len(segs) > 2 THEN Len(segs) - 2 ELSE 1],
                       segs[Len(segs)])

\* path.split('/')[-2] raises IndexError when the path has a single segment
parse_sample_type(path) ==
    LET segs == str_split(path, "/")
    IN  IF Len(segs) < 2
        THEN "IndexError"
        ELSE TypeChain(segs[Len(segs) - 1], segs[Len(segs)])

----------------------------------------------------------------------------
(* parse_date *)

Digits == <<"0", "1", "2", "3", "4", "5", "6", "7", "8", "9">>

IsDigit(c) == \E n \in 1..Len(Digits) : Digits[n] = c

DigitVal(c) == (CHOOSE n \in 1..Len(Digits) : Digits[n] = c) - 1

\* the pattern (\d{4}-\d{2}-\d{2}) matches at the 1-based position i
DateReAt(s, i) ==
    /\ i + 9 <= Len(s)
    /\ \A k \in {0, 1, 2, 3, 5, 6, 8, 9} : IsDigit(s[i + k])
    /\ s[i + 4] = "-"
    /\ s[i + 7] = "-"

DateMatches(s) == {i \in 1..Len(s) : DateReAt(s, i)}

\* a variant that takes the rightmost match
DateSearchLast(s) ==
    IF DateMatches(s) = {} THEN 0
    ELSE CHOOSE i \in DateMatches(s) : \A j \in DateMatches(s) : j <= i

\* re.search: the leftmost match (0 when there is none)
DateSearch(s) ==
    IF DateMatches(s) = {} THEN 0 ELSE SetMin(DateMatches(s))

IsLeap(y) == (y % 4 = 0 /\ y % 100 # 0) \/ y % 400 = 0

DaysInMonth(y, m) ==
    IF m = 2 THEN (IF IsLeap(y) THEN 29 ELSE 28)
    ELSE IF m \in {4, 6, 9, 11} THEN 30
    ELSE 31

IsCalendarDate(y, m, d) ==
    /\ y >= 1
    /\ m \in 1..12
    /\ d \in 1..DaysInMonth(y, m)

\* the dates a nanosecond Timestamp holds: 1677-09-22 .. 2262-04-11
InNsBounds(y, m, d) ==
    /\ (y > 1677) \/ (y = 1677 /\ (m > 9 \/ (m = 9 /\ d >= 22)))
    /\ (y < 2262) \/ (y = 2262 /\ (m < 4 \/ (m = 4 /\ d <= 11)))

NaT == [nat |-> TRUE]

Date(y, m, d) == [year |-> y, month |-> m, day |-> d]

\* the fields of the ten characters of a match
DateOf(s, i) ==
    Date(1000 * DigitVal(s[i]) + 100 * DigitVal(s[i + 1])
            + 10 * DigitVal(s[i + 2]) + DigitVal(s[i + 3]),
         10 * DigitVal(s[i + 5]) + DigitVal(s[i + 6]),
         10 * DigitVal(s[i + 8]) + DigitVal(s[i + 9]))

\* pd.to_datetime(text, errors='coerce'): NaT for what is no calendar date; a
\* calendar date outside the nanosecond bounds is NaT or the date, depending
\* on the resolution the installed pandas parses strings to
to_datetime(s, i) ==
    LET t == DateOf(s, i)
    IN  IF ~IsCalendarDate(t.year, t.month, t.day) THEN {NaT}
        ELSE IF InNsBounds(t.year, t.month, t.day) THEN {t}
        ELSE {NaT, t}

\* the values parse_date(path) may return
parse_date(path) ==
    IF DateSearch(path) = 0 THEN {NaT} ELSE to_datetime(path, DateSearch(path))

----------------------------------------------------------------------------
(* aggregate_fpaths: DataFrame.apply runs the lambda on the rows in order, *)
(* and the lambda calls the four parsers in the order of its list          *)

\* the fpath of the row the lambda is working on
CurrentPath == fpaths[IF pc = "name" THEN Len(applied) + 1 ELSE Len(applied)]

\* the row under construction, with one more column
WithColumn(col, val) == [applied EXCEPT ![Len(applied)] = @ @@ (col :> val)]

\* filemeta = DataFrame(columns=...); filemeta['fpath'] = fpaths; an empty
\* frame is returned as it is
AggregateStart ==
    /\ pc = "aggregate"
    /\ filemeta' = [i \in 1..Len(fpaths) |-> [fpath |-> fpaths[i]]]
    /\ applied' = <<>>
    /\ pc' = IF fpaths = <<>> THEN "returned" ELSE "name"
    /\ UNCHANGED <<entry, config, parsers, listed, fpaths, error, exitStatus,
                   output, sshVars>>

ParseSampleName ==
    /\ pc = "name"
    /\ applied' = Append(applied, [sample_name |-> parse_sample_name(CurrentPath)])
    /\ pc' = "id"
    /\ UNCHANGED <<entry, config, parsers, listed, fpaths, filemeta, error,
                   exitStatus, output, sshVars>>

ParseSampleId ==
    /\ pc = "id"
    /\ applied' = WithColumn("sample_id", parse_sample_id(CurrentPath))
    /\ pc' = "type"
    /\ UNCHANGED <<entry, config, parsers, listed, fpaths, filemeta, error,
                   exitStatus, output, sshVars>>

\* the IndexError of parse_sample_type leaves apply and aggregate_fpaths; under
\* main nothing catches it and the interpreter exits with status 1
ParseSampleType ==
    /\ pc = "type"
    /\ LET t == parse_sample_type(CurrentPath)
       IN  IF t = "IndexError"
           THEN /\ error' = "aggregate"
                /\ pc' = IF entry = "main" THEN "exit" ELSE "raised"
                /\ exitStatus' = IF entry = "main" THEN 1 ELSE exitStatus
                /\ UNCHANGED applied
           ELSE /\ applied' = WithColumn("sample_type", t)
                /\ pc' = "date"
                /\ UNCHANGED <<error, exitStatus>>
    /\ UNCHANGED <<entry, config, parsers, listed, fpaths, filemeta, output,
                   sshVars>>

\* the last column of the row; after the last row the four columns are
\* assigned to filemeta and it is returned
ParseDate ==
    /\ pc = "date"
    /\ \E r \in parse_date(CurrentPath) :
          applied' = WithColumn("recieved", r)
    /\ IF Len(applied) = Len(fpaths)
       THEN /\ filemeta' = [i \in 1..Len(fpaths) |-> filemeta[i] @@ applied'[i]]
            /\ pc' = "returned"
       ELSE /\ pc' = "name"
            /\ UNCHANGED filemeta
    /\ UNCHANGED <<entry, config, parsers, listed, fpaths, error, exitStatus,
                   output, sshVars>>

NextAggregate ==
    \/ AggregateStart
    \/ ParseSampleName
    \/ ParseSampleId
    \/ ParseSampleType
    \/ ParseDate

----------------------------------------------------------------------------
(* The paths the classifier is run on *)

RECURSIVE Concats(_, _)
\* the concatenations of at most n pieces of P
Concats(P, n) ==
    IF n = 0 THEN {<<>>}
    ELSE LET S == Concats(P, n - 1) IN S \cup {s \o p : s \in S, p \in P}

NamePieces == {GEX, MUX, ic, <<"a">>, <<"_">>, <<"_", "b", "_">>, L00, R_, fastq}

DirPieces == {amplicons, nanopore, fq_2025_09_23, IAR_TCR, scTCR, sc, atac,
              <<"x">>, <<"A", "T", "A", "C">>}

TypeBasenames == {<<"a">>, <<"x">> \o alpha, beta \o <<".", "f", "q">>,
                  <<"B", "e", "t", "a">>}

DatePieces == {<<"2", "0", "2", "5", "-", "1", "3", "-", "4", "0">>,
               <<"2", "0", "2", "4", "-", "0", "2", "-", "2", "9">>,
               <<"2", "0", "2", "3", "-", "0", "2", "-", "2", "9">>,
               <<"2", "0", "2", "4", "-", "0", "4", "-", "3", "1">>,
               <<"2", "0", "2", "4", "-", "0", "5", "-", "0", "1">>,
               <<"1", "5", "0", "0", "-", "0", "1", "-", "0", "1">>,
               <<"x">>, <<"/">>, <<"1">>, <<"-">>}

PathC3 == <<"/", "d", "a", "t", "a", "/", "s", "c", "r", "n", "a", "/", "r", "u", "n", "1", "/", "G", "E", "X", "_", "S", "1", "_", "L", "0", "0", "1", "_", "R", "1", "_", "2", "0", "2", "4", "-", "0", "5", "-", "0", "1", ".", "f", "a", "s", "t", "q", ".", "g", "z">>
PathC4 == <<"/", "d", "a", "t", "a", "/", "a", "m", "p", "l", "i", "c", "o", "n", "s", "/", "b", "e", "t", "a", "/", "i", "c", "X", "Y", "Z", "_", "d", "o", "n", "o", "r", "1", "_", "r", "e", "p", "2", "_", "p", "a", "n", "e", "l", "A", ".", "f", "a", "s", "t", "q">>
PathBare == <<"s", "a", "m", "p", "l", "e", ".", "f", "a", "s", "t", "q">>

\* a directory, then a basename built from the name pieces
NamePaths == {<<"d", "/">> \o b : b \in Concats(NamePieces, MaxNamePieces)}

\* parent/basename, alone and under a further directory
TypePaths ==
    LET tails == {d \o <<"/">> \o b : d \in Concats(DirPieces, MaxDirPieces),
                                      b \in TypeBasenames}
    IN  tails \cup {<<"r", "/">> \o t : t \in tails}

\* date-like text anywhere in the path, in directories and in the basename
DatePaths == {<<"d", "/">> \o t : t \in Concats(DatePieces, MaxDatePieces)}

ExamplePaths == {PathC3, PathC4, PathBare, <<>>, <<"/">>, <<"d", "/">>, GEX, ic}

AggregateInputs ==
    {<<p>> : p \in NamePaths \cup TypePaths \cup DatePaths \cup ExamplePaths}
        \cup {<<p, q>> : p \in ExamplePaths, q \in ExamplePaths}

----------------------------------------------------------------------------
(* SpecAggregate: aggregate_fpaths called on a path list *)

SshIdle ==
    /\ sshPc = "idle"
    /\ sshRoot = 0
    /\ remote = <<>>
    /\ outBuf = <<>>
    /\ errBuf = <<>>
    /\ errPc = <<>>
    /\ sshFpaths = 0
    /\ printed = 0

InitAggregate ==
    /\ entry = "aggregate_fpaths"
    /\ pc = "aggregate"
    /\ fpaths \in AggregateInputs
    /\ config = <<>>
    /\ parsers = <<>>
    /\ listed = 0
    /\ applied = <<>>
    /\ filemeta = <<>>
    /\ error = "none"
    /\ exitStatus = -1
    /\ output = <<>>
    /\ SshIdle

SpecAggregate == InitAggregate /\ [][NextAggregate]_vars

----------------------------------------------------------------------------
(* parse_fpaths and the command-line driver *)

MaxHosts == 2

HostIds == {"local", "hostA", "hostB"}

PathRun1 == <<"s", "c", "/", "a", "_", "R", "1", ".", "f", "a", "s", "t", "q">>
PathRun2 == <<"d", "/">> \o GEX \o <<"_", "a", "_", "b", "_", "c">>

\* what list_files finds on a host
FileLists == {<<>>, <<PathRun1>>, <<PathRun2, PathRun1>>, <<PathBare>>}

\* A host entry of the configuration with what the environment holds for it:
\*   alias     socket.gethostname() is one of host_meta['aliases']
\*   hasPaths  host_meta has the key 'paths'
\*   reachable paramiko connects to host_meta['host']
\*   listOk    list_files raises nothing
\*   files     the paths list_files returns
\* Fields that the run never reads are held at one value: an entry that raises
\* has no files, a local entry needs no connection, and one remote host is
\* enough to carry an alias.
HostEntries ==
    {h \in [host_id : HostIds, alias : BOOLEAN, hasPaths : BOOLEAN,
            reachable : BOOLEAN, listOk : BOOLEAN, files : FileLists] :
        /\ h.host_id = "local" => ~h.alias
        /\ h.host_id = "hostB" => ~h.alias
        /\ (h.host_id = "local" \/ h.alias) => h.reachable
        /\ ~h.hasPaths => (h.reachable /\ h.listOk)
        /\ ~(h.hasPaths /\ h.reachable /\ h.listOk) => h.files = <<>>}

RECURSIVE SeqsUpTo(_, _)
\* the sequences of at most n host entries with distinct identifiers: a
\* mapping has each key once and is iterated in insertion order
SeqsUpTo(H, n) ==
    IF n = 0 THEN {<<>>}
    ELSE LET S == SeqsUpTo(H, n - 1)
         IN  S \cup {Append(c, h) : c \in S, h \in H}

Configs ==
    {c \in SeqsUpTo(HostEntries, MaxHosts) :
        \A i, j \in 1..Len(c) : i # j => c[i].host_id # c[j].host_id}

\* get_file_parser: the parser class chosen for a host entry
get_file_parser(h) ==
    IF h.host_id = "local" \/ h.alias THEN "LocalParser" ELSE "SSHParser"

\* an element of the comprehension raises: host_meta['paths'] is a KeyError,
\* get_ssh_client fails to connect
ResolveRaises(h) ==
    \/ ~h.hasPaths
    \/ (get_file_parser(h) = "SSHParser" /\ ~h.reachable)

\* a variant with a generator in place of the list: a host is listed as soon
\* as its own parser exists
ReadyToListLazy == listed < Len(parsers) \/ Len(parsers) = Len(config)

\* the list comprehension of the for statement is complete: the loop body runs
\* only once every host's tuple, parser included, has been built
ReadyToList == Len(parsers) = Len(config)

\* a variant whose handler only prints: parse_fpaths returns what it has
ExceptContinue(where) ==
    /\ error' = where
    /\ pc' = "aggregate"
    /\ UNCHANGED exitStatus

\* except Exception as e: print(repr(e)); sys.exit(1)
ExceptExit(where) ==
    /\ error' = where
    /\ exitStatus' = 1
    /\ pc' = "exit"

\* main calls parse_filemeta, which calls parse_fpaths; its first statement
\* builds the configuration (from --paths, or read_config, outside the try)
ReadConfig ==
    /\ pc = "start"
    /\ \/ \E c \in Configs :
             /\ config' = c
             /\ pc' = "parse_fpaths"
             /\ UNCHANGED <<error, exitStatus>>
       \/ /\ error' = "read_config"
          /\ exitStatus' = 1
          /\ pc' = "exit"
          /\ UNCHANGED config
    /\ UNCHANGED <<entry, parsers, listed, fpaths, applied, filemeta, output,
                   sshVars>>

\* one element of the list comprehension
Resolve ==
    /\ pc = "parse_fpaths"
    /\ ~ReadyToList
    /\ Len(parsers) < Len(config)
    /\ LET h == config[Len(parsers) + 1]
       IN  IF ResolveRaises(h)
           THEN /\ ExceptExit("resolve")
                /\ UNCHANGED parsers
           ELSE /\ parsers' = Append(parsers, get_file_parser(h))
                /\ UNCHANGED <<error, exitStatus, pc>>
    /\ UNCHANGED <<entry, config, listed, fpaths, applied, filemeta, output,
                   sshVars>>

\* one iteration of the for loop: fpaths += file_parser.list_files(paths, exts)
ListFiles ==
    /\ pc = "parse_fpaths"
    /\ ReadyToList
    /\ listed < Len(parsers)
    /\ LET h == config[listed + 1]
       IN  IF ~h.listOk
           THEN /\ ExceptExit("list")
                /\ UNCHANGED <<listed, fpaths>>
           ELSE /\ fpaths' = fpaths \o h.files
                /\ listed' = listed + 1
                /\ UNCHANGED <<error, exitStatus, pc>>
    /\ UNCHANGED <<entry, config, parsers, applied, filemeta, output, sshVars>>

\* return fpaths; parse_filemeta passes it to aggregate_fpaths
ParseFpathsReturn ==
    /\ pc = "parse_fpaths"
    /\ Len(parsers) = Len(config)
    /\ listed = Len(config)
    /\ pc' = "aggregate"
    /\ UNCHANGED <<entry, config, parsers, listed, fpaths, applied, filemeta,
                   error, exitStatus, output, sshVars>>

\* if len(filemeta) == 0: print(...); sys.exit(0)
ExitEmpty ==
    /\ entry = "main"
    /\ pc = "returned"
    /\ Len(filemeta) = 0
    /\ exitStatus' = 0
    /\ pc' = "exit"
    /\ UNCHANGED <<entry, config, parsers, listed, fpaths, applied, filemeta,
                   error, output, sshVars>>

\* filemeta.to_csv(args.output, ...), and the script ends
Export ==
    /\ entry = "main"
    /\ pc = "returned"
    /\ Len(filemeta) # 0
    /\ output' = Append(output, filemeta)
    /\ exitStatus' = 0
    /\ pc' = "exit"
    /\ UNCHANGED <<entry, config, parsers, listed, fpaths, applied, filemeta,
                   error, sshVars>>

Init ==
    /\ entry = "main"
    /\ pc = "start"
    /\ config = <<>>
    /\ parsers = <<>>
    /\ listed = 0
    /\ fpaths = <<>>
    /\ applied = <<>>
    /\ filemeta = <<>>
    /\ error = "none"
    /\ exitStatus = -1
    /\ output = <<>>
    /\ SshIdle

Next ==
    \/ ReadConfig
    \/ Resolve
    \/ ListFiles
    \/ ParseFpathsReturn
    \/ AggregateStart
    \/ ParseSampleName
    \/ ParseSampleId
    \/ ParseSampleType
    \/ ParseDate
    \/ ExitEmpty
    \/ Export

Spec == Init /\ [][Next]_vars

----------------------------------------------------------------------------
(* SSHParser.list_files: per root, exec_command, a thread that drains      *)
(* stderr, and the calling thread draining stdout.  The remote command     *)
(* writes a finite interleaving of stdout and stderr lines into two        *)
(* bounded buffers, blocks while the buffer of its next line is full, and  *)
(* closes both streams after its last line.                                *)

MaxRoots == 2
MaxLines == 3
BufCap == 1

RECURSIVE Scripts(_)
\* the interleavings of at most n lines on the two streams
Scripts(n) ==
    IF n = 0 THEN {<<>>}
    ELSE LET S == Scripts(n - 1)
         IN  S \cup {Append(x, l) : x \in S, l \in {"out", "err"}}

\* a variant that drains stderr only once stdout has been drained
ErrDrainAfterStdout(r) ==
    /\ errPc[r] = "running"
    /\ ~(sshRoot = r /\ sshPc = "drain")

\* the started stderr thread of root r runs beside the calling thread
ErrDrainEnabled(r) == errPc[r] = "running"

\* for path in paths: _, stdout, stderr = self.ssh.exec_command(cmd)
ExecCommand ==
    /\ sshPc = "exec"
    /\ sshRoot < MaxRoots
    /\ \E script \in Scripts(MaxLines) : remote' = Append(remote, script)
    /\ sshRoot' = sshRoot + 1
    /\ outBuf' = Append(outBuf, 0)
    /\ errBuf' = Append(errBuf, 0)
    /\ errPc' = Append(errPc, "created")
    /\ sshPc' = "start"
    /\ UNCHANGED <<sshFpaths, printed, progVars>>

\* err_thread = threading.Thread(...); err_thread.start()
StartErrThread ==
    /\ sshPc = "start"
    /\ errPc' = [errPc EXCEPT ![sshRoot] = "running"]
    /\ sshPc' = "drain"
    /\ UNCHANGED <<sshRoot, remote, outBuf, errBuf, sshFpaths, printed, progVars>>

\* the remote command of root r writes its next line
RemoteEmit(r) ==
    /\ r \in 1..Len(remote)
    /\ remote[r] # <<>>
    /\ IF Head(remote[r]) = "out"
       THEN /\ outBuf[r] < BufCap
            /\ outBuf' = [outBuf EXCEPT ![r] = @ + 1]
            /\ UNCHANGED errBuf
       ELSE /\ errBuf[r] < BufCap
            /\ errBuf' = [errBuf EXCEPT ![r] = @ + 1]
            /\ UNCHANGED outBuf
    /\ remote' = [remote EXCEPT ![r] = Tail(@)]
    /\ UNCHANGED <<sshPc, sshRoot, errPc, sshFpaths, printed, progVars>>

\* self.read_stream(stdout, fpaths.append): a line is appended, and at the end
\* of the stream the loop goes on to the next root
ReadStdout ==
    /\ sshPc = "drain"
    /\ IF outBuf[sshRoot] > 0
       THEN /\ outBuf' = [outBuf EXCEPT ![sshRoot] = @ - 1]
            /\ sshFpaths' = sshFpaths + 1
            /\ UNCHANGED sshPc
       ELSE /\ remote[sshRoot] = <<>>
            /\ sshPc' = "exec"
            /\ UNCHANGED <<outBuf, sshFpaths>>
    /\ UNCHANGED <<sshRoot, remote, errBuf, errPc, printed, progVars>>

\* the stderr thread of root r: read_stream(stderr, print)
ReadStderr(r) ==
    /\ r \in 1..Len(errPc)
    /\ ErrDrainEnabled(r)
    /\ IF errBuf[r] > 0
       THEN /\ errBuf' = [errBuf EXCEPT ![r] = @ - 1]
            /\ printed' = printed + 1
            /\ UNCHANGED errPc
       ELSE /\ remote[r] = <<>>
            /\ errPc' = [errPc EXCEPT ![r] = "done"]
            /\ UNCHANGED <<errBuf, printed>>
    /\ UNCHANGED <<sshPc, sshRoot, remote, outBuf, sshFpaths, progVars>>

\* return fpaths, after the last root
ListFilesReturn ==
    /\ sshPc = "exec"
    /\ sshPc' = "returned"
    /\ UNCHANGED <<sshRoot, remote, outBuf, errBuf, errPc, sshFpaths, printed,
                   progVars>>

InitDrain ==
    /\ entry = "list_files"
    /\ pc = "list_files"
    /\ config = <<>>
    /\ parsers = <<>>
    /\ listed = 0
    /\ fpaths = <<>>
    /\ applied = <<>>
    /\ filemeta = <<>>
    /\ error = "none"
    /\ exitStatus = -1
    /\ output = <<>>
    /\ sshPc = "exec"
    /\ sshRoot = 0
    /\ remote = <<>>
    /\ outBuf = <<>>
    /\ errBuf = <<>>
    /\ errPc = <<>>
    /\ sshFpaths = 0
    /\ printed = 0

NextDrain ==
    \/ ExecCommand
    \/ StartErrThread
    \/ \E r \in 1..MaxRoots : RemoteEmit(r)
    \/ ReadStdout
    \/ \E r \in 1..MaxRoots : ReadStderr(r)
    \/ ListFilesReturn

\* the calling thread, each stderr thread and each remote command keep
\* running: the interpreter schedules every runnable thread, and the remote
\* process runs on its own machine
FairDrain ==
    /\ WF_vars(ExecCommand \/ ListFilesReturn)
    /\ WF_vars(StartErrThread)
    /\ WF_vars(ReadStdout)
    /\ \A r \in 1..MaxRoots : WF_vars(RemoteEmit(r))
    /\ \A r \in 1..MaxRoots : WF_vars(ReadStderr(r))

SpecDrain == InitDrain /\ [][NextDrain]_vars /\ FairDrain

----------------------------------------------------------------------------
(* The properties *)

Rows == 1..Len(applied)

\* column col of row i has been computed
HasCol(i, col) == col \in DOMAIN applied[i]

UnderscoreAt(b) == {i \in 1..Len(b) : b[i] = "_"}

\* the position of the n-th underscore of b, Len(b) + 1 when there are fewer
NthUnderscore(b, n) ==
    IF Cardinality(UnderscoreAt(b)) < n THEN Len(b) + 1
    ELSE CHOOSE i \in UnderscoreAt(b) :
            Cardinality({j \in UnderscoreAt(b) : j <= i}) = n

\* the name read off the basename's text: up to the third underscore, between
\* the first and the fourth, up to the first
NameByUnderscores(b) ==
    IF str_startswith(b, GEX) \/ str_startswith(b, MUX)
    THEN SubSeq(b, 1, NthUnderscore(b, 3) - 1)
    ELSE IF str_startswith(b, ic)
    THEN SubSeq(b, NthUnderscore(b, 1) + 1, NthUnderscore(b, 4) - 1)
    ELSE SubSeq(b, 1, NthUnderscore(b, 1) - 1)

\* C7: for every basename, sample_name is the first three underscore tokens
\* joined by "_" under the prefixes GEX and MUX, tokens 2-4 under the prefix
\* ic, and the first token otherwise; missing tokens are left out.
C7_SampleNameTokens ==
    \A i \in Rows : applied[i].sample_name = NameByUnderscores(Basename(fpaths[i]))

\* a GEX basename with more than three tokens has been named
C7_Witness ==
    \E i \in Rows :
        /\ str_startswith(Basename(fpaths[i]), GEX)
        /\ Cardinality(UnderscoreAt(Basename(fpaths[i]))) >= 3
        /\ Len(applied[i].sample_name) < Len(Basename(fpaths[i]))

\* the 0-based index of the earliest marker occurrence, Len(b) without any
EarliestMarker(b) ==
    LET occ == UNION {Occurrences(b, Markers[k]) : k \in 1..Len(Markers)}
    IN  IF occ = {} THEN Len(b) ELSE SetMin(occ) - 1

\* C1: for every basename, sample_id starts at the first occurrence of the
\* sample name and ends just before the marker ("_L00", "_R", ".fastq") with
\* the smallest index in the basename, or at the end without a marker.
C1_SampleIdCutsAtEarliestMarker ==
    \A i \in Rows : HasCol(i, "sample_id") =>
        LET b == Basename(fpaths[i])
            start == str_find(b, NameByUnderscores(b))
        IN  applied[i].sample_id = SubSeq(b, start + 1, EarliestMarker(b))

\* rule k of the priority list holds of (parent, basename)
RuleHolds(k, parent, base) ==
    CASE k = 1 -> str_in(amplicons, parent)
      [] k = 2 -> str_in(alpha, base) \/ str_in(beta, base)
      [] k = 3 -> str_in(nanopore, parent) \/ parent = fq_2025_09_23
      [] k = 4 -> str_in(IAR_TCR, parent) \/ str_in(scTCR, parent)
      [] k = 5 -> str_in(sc, parent)
      [] k = 6 -> str_in(atac, parent)
      [] OTHER -> TRUE

RuleOutcome ==
    <<"amplicon", "bulkTCR", "NanoporeWGS", "scRNA+VDJ", "scRNA", "ATAC", "WGS">>

\* C2: for every path of at least two segments, sample_type is the outcome
\* of the lowest-numbered rule that holds of the parent directory name and
\* the basename.
C2_SampleTypePriority ==
    \A i \in Rows : HasCol(i, "sample_type") =>
        LET segs == str_split(fpaths[i], "/")
            parent == segs[Len(segs) - 1]
            base == segs[Len(segs)]
            k == SetMin({j \in 1..Len(RuleOutcome) : RuleHolds(j, parent, base)})
        IN  applied[i].sample_type = RuleOutcome[k]

\* a basename with "alpha" under a parent with "amplicons" has been typed
C2_Witness ==
    \E i \in Rows :
        /\ HasCol(i, "sample_type")
        /\ LET segs == str_split(fpaths[i], "/")
           IN  /\ str_in(amplicons, segs[Len(segs) - 1])
               /\ str_in(alpha, segs[Len(segs)])
        /\ applied[i].sample_type = "amplicon"

C3Name == <<"G", "E", "X", "_", "S", "1", "_", "L", "0", "0", "1">>
C3Id == <<"G", "E", "X", "_", "S", "1">>

\* C3 as stated: the record of PathC3 has sample_name "GEX_S1_L001",
\* sample_id "GEX_S1_L001", sample_type "scRNA" and received 2024-05-01.
C3_RecordAsStated ==
    pc = "returned" =>
        \A i \in 1..Len(filemeta) : filemeta[i].fpath = PathC3 =>
            /\ filemeta[i].sample_name = C3Name
            /\ filemeta[i].sample_id = C3Name
            /\ filemeta[i].sample_type = "scRNA"
            /\ filemeta[i].recieved = Date(2024, 5, 1)

\* C3, amended: the record of PathC3 has sample_name "GEX_S1_L001",
\* sample_id "GEX_S1" (cut at "_L00"), sample_type "WGS" (the parent
\* directory is "run1") and received 2024-05-01.
C3_Record ==
    pc = "returned" =>
        \A i \in 1..Len(filemeta) : filemeta[i].fpath = PathC3 =>
            /\ filemeta[i].sample_name = C3Name
            /\ filemeta[i].sample_id = C3Id
            /\ filemeta[i].sample_type = "WGS"
            /\ filemeta[i].recieved = Date(2024, 5, 1)

\* aggregate_fpaths has returned a table with a record of PathC3
C3_Witness ==
    /\ pc = "returned"
    /\ \E i \in 1..Len(filemeta) :
          filemeta[i].fpath = PathC3 /\ "recieved" \in DOMAIN filemeta[i]

C4NameStated == <<"d", "o", "n", "o", "r", "1", "_", "r", "e", "p", "2", "_", "p", "a", "n", "e", "l", "A">>
C4Name == C4NameStated \o fastq

\* C4 as stated: for PathC4 sample_name is "donor1_rep2_panelA" and
\* sample_type is "amplicon".
C4_NameAndTypeAsStated ==
    \A i \in Rows : (fpaths[i] = PathC4 /\ HasCol(i, "sample_type")) =>
        /\ applied[i].sample_name = C4NameStated
        /\ applied[i].sample_type = "amplicon"

\* C4, amended: for PathC4 sample_name is "donor1_rep2_panelA.fastq" (the
\* fourth token runs to the end of the basename) and sample_type is "WGS"
\* (the parent directory is "beta", and the basename holds no "beta").
C4_NameAndType ==
    \A i \in Rows : (fpaths[i] = PathC4 /\ HasCol(i, "sample_type")) =>
        /\ applied[i].sample_name = C4Name
        /\ applied[i].sample_type = "WGS"

\* PathC4 has been named and typed
C4_Witness ==
    \E i \in Rows : fpaths[i] = PathC4 /\ HasCol(i, "sample_type")

\* C5: classification is total: on every path the four parsers return a
\* value and none raises, so aggregate_fpaths never fails.
C5_ClassificationTotal == error = "none" /\ pc # "raised"

\* the pattern matches at j and its ten characters are a calendar date
RealDateAt(p, j) ==
    /\ DateReAt(p, j)
    /\ IsCalendarDate(DateOf(p, j).year, DateOf(p, j).month, DateOf(p, j).day)

\* ... a date that every pandas represents
PlainDateAt(p, j) ==
    /\ RealDateAt(p, j)
    /\ InNsBounds(DateOf(p, j).year, DateOf(p, j).month, DateOf(p, j).day)

\* C6 as stated: the date is a valid one whenever the path holds a correctly
\* formatted real date anywhere, and missing otherwise.
C6_DateWheneverPresent ==
    \A i \in Rows : HasCol(i, "recieved") =>
        LET p == fpaths[i]
        IN  /\ (\E j \in 1..Len(p) : PlainDateAt(p, j))
                  => applied[i].recieved # NaT
            /\ (~\E j \in 1..Len(p) : RealDateAt(p, j))
                  => applied[i].recieved = NaT

\* the positions of the leftmost match of the pattern
Leftmost(p) ==
    {j \in 1..Len(p) : DateReAt(p, j) /\ \A k \in 1..(j - 1) : ~DateReAt(p, k)}

\* C6, amended: only the leftmost match of the pattern in the whole path is
\* converted: the date is that match's when it is a real date (the date, or
\* missing, when it lies outside 1677-09-22..2262-04-11), and missing when
\* nothing matches or the leftmost match is no real date.
C6_DateOfLeftmostMatch ==
    \A i \in Rows : HasCol(i, "recieved") =>
        LET p == fpaths[i]
            r == applied[i].recieved
        IN  IF Leftmost(p) = {} THEN r = NaT
            ELSE LET j == CHOOSE j \in Leftmost(p) : TRUE
                 IN  IF ~RealDateAt(p, j) THEN r = NaT
                     ELSE IF PlainDateAt(p, j) THEN r = DateOf(p, j)
                     ELSE r \in {NaT, DateOf(p, j)}

\* a malformed date-like text before a real date: the date is missing
C6_Witness ==
    \E i \in Rows :
        /\ HasCol(i, "recieved")
        /\ \E j \in Leftmost(fpaths[i]) : ~RealDateAt(fpaths[i], j)
        /\ \E j \in 1..Len(fpaths[i]) : PlainDateAt(fpaths[i], j)
        /\ applied[i].recieved = NaT

\* an exception was caught by the except clause of parse_fpaths
Caught == error \in {"resolve", "list"}

C8State ==
    /\ Len(output) <= 1
    /\ output # <<>> =>
          /\ pc = "exit"
          /\ exitStatus = 0
          /\ error = "none"
          /\ Len(parsers) = Len(config)
          /\ listed = Len(config)
          /\ Len(fpaths) >= 1
          /\ output[1] = filemeta
    /\ Caught => (pc = "exit" /\ exitStatus = 1 /\ output = <<>>)
    /\ (pc = "exit" /\ error = "none" /\ fpaths = <<>>) =>
          (exitStatus = 0 /\ output = <<>>)

C8Step ==
    Caught => UNCHANGED <<parsers, listed, fpaths, output, exitStatus>>

\* C8: the table is written at most once, only in the final state of a run
\* with status 0 in which every host was resolved and listed and a path was
\* collected; an exception while resolving or listing ends the run with
\* status 1, no further listing and no output; a run that collected no path
\* ends with status 0 and no output.
C8_OutputOnlyOnSuccess == [](C8State) /\ [][C8Step]_vars

\* a host was listed with files, a later host's listing raised: exit, no table
C8_Witness ==
    /\ error = "list"
    /\ listed >= 1
    /\ fpaths # <<>>
    /\ pc = "exit"

RECURSIVE FilesOfFirst(_)
\* the files of the first n hosts, concatenated in configuration order
FilesOfFirst(n) ==
    IF n = 0 THEN <<>> ELSE FilesOfFirst(n - 1) \o config[n].files

\* C10: every host's parser is resolved, in configuration order, before the
\* first host is listed, so no host has been listed when resolving raises;
\* the hosts are then listed in configuration order, results concatenated.
C10_ResolveAllBeforeListing ==
    /\ listed > 0 => Len(parsers) = Len(config)
    /\ listed <= Len(parsers)
    /\ \A i \in 1..Len(parsers) :
          parsers[i] = IF config[i].host_id = "local" \/ config[i].alias
                       THEN "LocalParser" ELSE "SSHParser"
    /\ error = "resolve" => (listed = 0 /\ fpaths = <<>>)
    /\ fpaths = FilesOfFirst(listed)

\* the first host, which has files, was resolved; a later one raised
C10_Witness ==
    /\ error = "resolve"
    /\ Len(parsers) >= 1
    /\ config[1].files # <<>>

\* the command of the root being listed is blocked on its full stderr buffer
\* while the calling thread waits on the empty stdout buffer
Stalled ==
    /\ sshPc = "drain"
    /\ remote[sshRoot] # <<>>
    /\ Head(remote[sshRoot]) = "err"
    /\ errBuf[sshRoot] = BufCap
    /\ outBuf[sshRoot] = 0

\* C9: whenever the command is blocked on a full stderr buffer while stdout
\* collection waits, the stderr thread is running and drains it; stdout
\* collection reaches the end of every stream and list_files returns.
C9_DrainReturns ==
    /\ [](Stalled => errPc[sshRoot] = "running")
    /\ [](sshPc = "drain" => <>(sshPc = "exec"))
    /\ <>(sshPc = "returned")

\* the command is blocked on stderr with the calling thread waiting on stdout
C9_Witness == Stalled

====
